---- MODULE Spec2Model ----
(***************************************************************************)
(* Model of configure-expect.py: the PexpectTensorFlowConfigure class.     *)
(*                                                                         *)
(* A Python str is a sequence of one-character strings, so that strip()    *)
(* and join() are computed and not assumed.  An Optional[X] is a sequence  *)
(* of length 0 (None) or 1 (the value).  A bool_y_n object is a record     *)
(* with the field `value`.                                                 *)
(***************************************************************************)
EXTENDS Integers, Sequences, FiniteSets, TLC

VARIABLES
    argv,       \* the command line, None when the class is used directly
    args,       \* keyword arguments of the constructor call
    EXPECT,     \* the PexpectTensorFlowConfigure object, None until constructed
    pc,         \* position of the program
    err,        \* the exception that ended the program, if any
    script,     \* the pexpect.spawn session (self.script)
    child,      \* the child process as the operating system sees it
    log         \* observable events, oldest first

vars == <<argv, args, EXPECT, pc, err, script, child, log>>

----------------------------------------------------------------------------
(* Bounds *)

\* Most switches on a command line.
MaxSwitches == 2

\* Longest list whose rendering is computed on its own.
MaxListLen == 2

\* Number of arguments in which a constructor call may differ from one of
\* the baseline invocations.
MaxOverrides == 1

----------------------------------------------------------------------------
(* Python values *)

None == <<>>
Some(x) == <<x>>
IsNone(o) == Len(o) = 0
Val(o) == o[1]

Range(s) == {s[i] : i \in 1..Len(s)}

Whitespace == {" ", "\t", "\n", "\r"}

\* str.lstrip()
RECURSIVE lstrip(_)
lstrip(s) ==
    IF Len(s) > 0 /\ Head(s) \in Whitespace THEN lstrip(Tail(s)) ELSE s

\* str.rstrip()
RECURSIVE rstrip(_)
rstrip(s) ==
    IF Len(s) > 0 /\ s[Len(s)] \in Whitespace
    THEN rstrip(SubSeq(s, 1, Len(s) - 1))
    ELSE s

\* str.strip()
strip(s) == rstrip(lstrip(s))

\* sep.join(xs)
RECURSIVE join(_, _)
join(sep, xs) ==
    IF Len(xs) = 0 THEN <<>>
    ELSE IF Len(xs) = 1 THEN xs[1]
    ELSE xs[1] \o sep \o join(sep, Tail(xs))

\* [x.strip() for x in xs]
stripAll(xs) == [i \in 1..Len(xs) |-> strip(xs[i])]

\* s.startswith(prefix)
startswith(s, prefix) ==
    /\ Len(s) >= Len(prefix)
    /\ SubSeq(s, 1, Len(prefix)) = prefix

----------------------------------------------------------------------------
(* class bool_y_n *)

bool_y_n(value) == [value |-> value]

\* bool_y_n.__bool__
bool_y_n_bool(b) == IF b.value THEN TRUE ELSE FALSE

\* bool_y_n rendered as Python renders a bool
bool_y_n_str_python(b) ==
    IF b.value THEN <<"T", "r", "u", "e">> ELSE <<"F", "a", "l", "s", "e">>

\* bool_y_n.__repr__ / __str__
bool_y_n_str(b) == IF b.value THEN <<"Y">> ELSE <<"N">>

----------------------------------------------------------------------------
(* The file system and the argument values of the explored invocations *)

UsrBinPython == <<"/","u","s","r","/","b","i","n","/","p","y","t","h","o","n">>
UsrLibPython == <<"/","u","s","r","/","l","i","b","/","p","y","t","h","o","n">>
DistPackages == <<"/","d","i","s","t","-","p","a","c","k","a","g","e","s">>

V36 == <<"3",".","6">>
V26 == <<"2",".","6">>
V27 == <<"2",".","7">>
V39 == <<"3",".","9">>

ConfigureScript == <<".","/","c","o","n","f","i","g","u","r","e">>
CudaDir == <<"/","c","u","d","a">>
TrtDir == <<"/","t","r","t">>
GccBin == <<"/","g","c","c">>
MpiDir == <<"/","m","p","i">>
NoSuchPath == <<"/","n","o","p","e">>
EmptyStr == <<>>

Ver90 == <<"9",".","0">>
Ver7 == <<"7">>
Ver2 == <<"2">>

Caps == << <<"3",".","5">>, <<" ","5",".","2"," ">> >>
OptFlags == << <<" ","-","m","a","r","c","h","=","n","a","t","i","v","e">>,
               <<" ","-","m","a","v","x","2">> >>

\* os.path.exists(p) is membership in the set of existing paths.  Python
\* 3.6 and 2.6 are fully installed, 2.7 has a binary and no dist-packages
\* directory, 3.9 has no binary.
ExistingPaths ==
    { ConfigureScript, CudaDir, TrtDir, GccBin, MpiDir,
      UsrBinPython \o V36, UsrBinPython \o V26, UsrBinPython \o V27,
      UsrLibPython \o <<"3">> \o DistPackages,
      UsrLibPython \o V26 \o DistPackages }

exists(p) == p \in ExistingPaths

----------------------------------------------------------------------------
(* Constructor calls explored.  Each is a baseline invocation in which at   *)
(* most MaxOverrides arguments were replaced by another value.              *)

FeatureFlags ==
    { "with_jemalloc", "with_google_cloud_platform", "with_hdfs",
      "with_amazon_s3", "with_kafka", "with_xla_jit", "with_gdr",
      "with_verbs" }

BoolFields ==
    FeatureFlags \cup
    { "with_opencl_sycl", "with_cuda", "with_fresh_clang", "with_mpi",
      "cuda_with_tensorrt", "cuda_with_clang" }

VersionFields == { "cuda_version", "cuda_cudnn_version", "cuda_nccl_version" }

PathFields ==
    { "cuda_path", "cuda_cudnn_path", "cuda_tensorrt_path", "cuda_gcc_path",
      "mpi_path" }

MinimalArgs ==
    [ command |-> ConfigureScript,
      python_version |-> V36,
      with_jemalloc |-> FALSE,
      with_google_cloud_platform |-> FALSE,
      with_hdfs |-> FALSE,
      with_amazon_s3 |-> FALSE,
      with_kafka |-> FALSE,
      with_xla_jit |-> FALSE,
      with_gdr |-> FALSE,
      with_verbs |-> FALSE,
      with_opencl_sycl |-> FALSE,
      with_cuda |-> FALSE,
      with_fresh_clang |-> FALSE,
      with_mpi |-> FALSE,
      cuda_version |-> None,
      cuda_path |-> None,
      cuda_cudnn_version |-> None,
      cuda_cudnn_path |-> None,
      cuda_with_tensorrt |-> FALSE,
      cuda_tensorrt_path |-> None,
      cuda_nccl_version |-> None,
      cuda_capabilities |-> None,
      cuda_with_clang |-> FALSE,
      cuda_gcc_path |-> None,
      mpi_path |-> None,
      opts_flags |-> None ]

GpuArgs ==
    [ MinimalArgs EXCEPT
        !.with_cuda = TRUE,
        !.cuda_version = Some(Ver90),
        !.cuda_path = Some(CudaDir),
        !.cuda_cudnn_version = Some(Ver7),
        !.cuda_cudnn_path = Some(CudaDir),
        !.cuda_nccl_version = Some(Ver2),
        !.cuda_capabilities = Some(Caps),
        !.cuda_gcc_path = Some(GccBin) ]

GpuTrtArgs ==
    [ GpuArgs EXCEPT
        !.cuda_with_tensorrt = TRUE,
        !.cuda_tensorrt_path = Some(TrtDir) ]

MpiArgs ==
    [ MinimalArgs EXCEPT !.with_mpi = TRUE, !.mpi_path = Some(MpiDir) ]

FullArgs ==
    [ GpuTrtArgs EXCEPT
        !.with_jemalloc = TRUE,
        !.with_google_cloud_platform = TRUE,
        !.with_hdfs = TRUE,
        !.with_amazon_s3 = TRUE,
        !.with_kafka = TRUE,
        !.with_xla_jit = TRUE,
        !.with_gdr = TRUE,
        !.with_verbs = TRUE,
        !.with_mpi = TRUE,
        !.mpi_path = Some(MpiDir),
        !.opts_flags = Some(OptFlags) ]

\* GPU and MPI requested with none of their values supplied.
BareArgs == [ MinimalArgs EXCEPT !.with_cuda = TRUE, !.with_mpi = TRUE ]

NoCommandArgs == [ MinimalArgs EXCEPT !.command = NoSuchPath ]

Baselines ==
    { MinimalArgs, GpuArgs, GpuTrtArgs, MpiArgs, FullArgs, BareArgs,
      NoCommandArgs }

VersionValues == { None, Some(EmptyStr), Some(Ver90) }
PathValues == { None, Some(EmptyStr), Some(NoSuchPath), Some(CudaDir) }
CapsValues == { None, Some(<<>>), Some(Caps) }
OptsValues == { None, Some(<<>>), Some(OptFlags) }

OneOff(a) ==
    {a}
    \cup { [a EXCEPT ![f] = b] : f \in BoolFields, b \in BOOLEAN }
    \cup { [a EXCEPT ![f] = v] : f \in VersionFields, v \in VersionValues }
    \cup { [a EXCEPT ![f] = v] : f \in PathFields, v \in PathValues }
    \cup { [a EXCEPT !.cuda_capabilities = v] : v \in CapsValues }
    \cup { [a EXCEPT !.opts_flags = v] : v \in OptsValues }
    \cup { [a EXCEPT !.command = v] : v \in {ConfigureScript, NoSuchPath} }
    \cup { [a EXCEPT !.python_version = v] : v \in {V36, V26, V27, V39} }

RECURSIVE Variants(_)
Variants(n) ==
    IF n = 0 THEN Baselines ELSE UNION { OneOff(a) : a \in Variants(n - 1) }

Calls == Variants(MaxOverrides)

----------------------------------------------------------------------------
(* Exceptions.  A message is its sequence of words. *)

NoError == [type |-> "none", msg |-> <<>>]

AssertionError(msg) == [type |-> "AssertionError", msg |-> msg]
NotImplementedError(msg) == [type |-> "NotImplementedError", msg |-> msg]
PexpectError(type) == [type |-> type, msg |-> <<>>]

MustBeSet(field, flag) ==
    AssertionError(<<field, "must", "be", "set", "if", flag>>)

NonExisting(field, kind) ==
    AssertionError(<<field, "is", "set", "a", "non", "existing", kind>>)

NotImplemented(flag) ==
    NotImplementedError(<<flag, "is", "not", "implemented">>)

----------------------------------------------------------------------------
(* PexpectTensorFlowConfigure.__init__: the checks, in the order of the     *)
(* code.  The result is the exception raised, or NoError.                   *)

\* if with_cuda: ... (lines 81-99)
init_cuda(a) ==
    IF IsNone(a.cuda_version)
    THEN MustBeSet("cuda_version", "with_cuda=True")
    ELSE IF IsNone(a.cuda_path)
    THEN MustBeSet("cuda_path", "with_cuda=True")
    ELSE IF IsNone(a.cuda_cudnn_version)
    THEN MustBeSet("cuda_cudnn_version", "with_cuda=True")
    ELSE IF IsNone(a.cuda_cudnn_path)
    THEN MustBeSet("cuda_cudnn_path", "with_cuda=True")
    ELSE IF IsNone(a.cuda_nccl_version)
    THEN MustBeSet("cuda_nccl_version", "with_cuda=True")
    ELSE IF IsNone(a.cuda_capabilities)
    THEN MustBeSet("cuda_capabilities", "with_cuda=True")
    ELSE IF IsNone(a.cuda_gcc_path)
    THEN MustBeSet("cuda_gcc_path", "with_cuda=True")
    ELSE IF ~exists(Val(a.cuda_path))
    THEN NonExisting("cuda_path", "folder")
    ELSE IF ~exists(Val(a.cuda_cudnn_path))
    THEN NonExisting("cuda_cudnn_path", "folder")
    ELSE IF ~a.cuda_with_clang /\ IsNone(a.cuda_gcc_path)
    THEN MustBeSet("cuda_gcc_path", "cuda_with_clang=True")
    ELSE IF ~a.cuda_with_clang /\ ~exists(Val(a.cuda_gcc_path))
    THEN NonExisting("cuda_gcc_path", "file")
    ELSE IF a.cuda_with_tensorrt /\ IsNone(a.cuda_tensorrt_path)
    THEN MustBeSet("cuda_tensorrt_path", "cuda_with_tensorrt=True")
    ELSE IF a.cuda_with_tensorrt /\ ~exists(Val(a.cuda_tensorrt_path))
    THEN NonExisting("cuda_tensorrt_path", "folder")
    ELSE NoError

\* init_mpi without the existence check
init_mpi_set_only(a) ==
    IF IsNone(a.mpi_path)
    THEN MustBeSet("mpi_path", "with_mpi=True")
    ELSE NoError

\* if with_mpi: ... (lines 101-103)
init_mpi(a) ==
    IF IsNone(a.mpi_path)
    THEN MustBeSet("mpi_path", "with_mpi=True")
    ELSE IF ~exists(Val(a.mpi_path))
    THEN NonExisting("mpi_path", "folder")
    ELSE NoError

\* init_unimplemented without the with_opencl_sycl check
init_unimplemented_clang_only(a) ==
    IF a.cuda_with_clang
    THEN NotImplemented("cuda_with_clang=True")
    ELSE NoError

\* init_unimplemented without the cuda_with_clang check
init_unimplemented_opencl_only(a) ==
    IF a.with_opencl_sycl
    THEN NotImplemented("with_opencl_sycl=True")
    ELSE NoError

\* lines 75-79
init_unimplemented(a) ==
    IF a.with_opencl_sycl
    THEN NotImplemented("with_opencl_sycl=True")
    ELSE IF a.cuda_with_clang
    THEN NotImplemented("cuda_with_clang=True")
    ELSE NoError

\* init_optional with the GPU checks made whatever with_cuda is
init_optional_unguarded(a) ==
    IF init_cuda(a) # NoError
    THEN init_cuda(a)
    ELSE IF a.with_mpi
    THEN init_mpi(a)
    ELSE NoError

\* line 81 and line 101: the two guarded blocks
init_optional(a) ==
    IF a.with_cuda /\ init_cuda(a) # NoError
    THEN init_cuda(a)
    ELSE IF a.with_mpi
    THEN init_mpi(a)
    ELSE NoError

\* init_checks leaving the guarded blocks to run()
init_checks_no_optional(a) ==
    IF ~exists(a.command)
    THEN AssertionError(<<"command", "must", "be", "a", "valid", "path",
                          "to", "TensorFlow", "configure", "script">>)
    ELSE init_unimplemented(a)

\* lines 73-103
init_checks(a) ==
    IF ~exists(a.command)
    THEN AssertionError(<<"command", "must", "be", "a", "valid", "path",
                          "to", "TensorFlow", "configure", "script">>)
    ELSE IF init_unimplemented(a) # NoError
    THEN init_unimplemented(a)
    ELSE init_optional(a)

\* lines 105-130: the fields of the object
init_fields(a) ==
    [ command |-> a.command,
      python_version |-> a.python_version,
      with_jemalloc |-> bool_y_n(a.with_jemalloc),
      with_google_cloud_platform |-> bool_y_n(a.with_google_cloud_platform),
      with_hdfs |-> bool_y_n(a.with_hdfs),
      with_amazon_s3 |-> bool_y_n(a.with_amazon_s3),
      with_kafka |-> bool_y_n(a.with_kafka),
      with_xla_jit |-> bool_y_n(a.with_xla_jit),
      with_gdr |-> bool_y_n(a.with_gdr),
      with_verbs |-> bool_y_n(a.with_verbs),
      with_opencl_sycl |-> bool_y_n(a.with_opencl_sycl),
      with_cuda |-> bool_y_n(a.with_cuda),
      with_fresh_clang |-> bool_y_n(a.with_fresh_clang),
      with_mpi |-> bool_y_n(a.with_mpi),
      cuda_version |-> a.cuda_version,
      cuda_path |-> a.cuda_path,
      cuda_cudnn_version |-> a.cuda_cudnn_version,
      cuda_cudnn_path |-> a.cuda_cudnn_path,
      cuda_with_tensorrt |-> bool_y_n(a.cuda_with_tensorrt),
      cuda_tensorrt_path |-> a.cuda_tensorrt_path,
      cuda_nccl_version |-> a.cuda_nccl_version,
      cuda_capabilities |-> a.cuda_capabilities,
      cuda_with_clang |-> bool_y_n(a.cuda_with_clang),
      cuda_gcc_path |-> a.cuda_gcc_path,
      mpi_path |-> a.mpi_path,
      opts_flags |-> a.opts_flags ]

----------------------------------------------------------------------------
(* Derived values (properties of the object) *)

\* lines 136-142; the assertion is python_bin_path_ok
python_bin_path(o) == UsrBinPython \o o.python_version
python_bin_path_ok(o) == exists(python_bin_path(o))

\* lines 145-154; the assertion is python_dist_path_ok
python_dist_path(o) ==
    IF startswith(o.python_version, <<"2", ".">>)
    THEN UsrLibPython \o o.python_version \o DistPackages
    ELSE UsrLibPython \o <<"3">> \o DistPackages
python_dist_path_ok(o) == exists(python_dist_path(o))

\* '%s does not exist' % path
DoesNotExist(path) == AssertionError(path \o <<"does", "not", "exist">>)

\* opts_flags_str joining the elements as given
opts_flags_str_unstripped(o) ==
    IF IsNone(o.opts_flags) THEN <<>>
    ELSE join(<<" ">>, Val(o.opts_flags))

\* opts_flags_str rendering an absent list as the text None
opts_flags_str_none(o) ==
    IF IsNone(o.opts_flags) THEN <<"N", "o", "n", "e">>
    ELSE join(<<" ">>, stripAll(Val(o.opts_flags)))

\* lines 157-161
opts_flags_str(o) ==
    IF IsNone(o.opts_flags) THEN <<>>
    ELSE join(<<" ">>, stripAll(Val(o.opts_flags)))

\* cuda_capabilities_str joining the elements as given
cuda_capabilities_str_unstripped(o) == join(<<",">>, Val(o.cuda_capabilities))

\* lines 164-168
cuda_capabilities_str(o) == join(<<",">>, stripAll(Val(o.cuda_capabilities)))

----------------------------------------------------------------------------
(* The session and the child *)

\* self.script.timeout = 2
Timeout == 2

NoScript == [state |-> "None", timeout |-> 0, before |-> None, after |-> None,
             closed |-> FALSE]

\* pexpect.spawn(command): before and after start as None
spawn(command) ==
    [state |-> "spawned", timeout |-> 30, before |-> None, after |-> None,
     closed |-> FALSE]

NoChild == [state |-> "none", exitstatus |-> 0]
ExitCodes == {0, 1}

\* What script.expect(question) can do.  A pattern is matched, or the wait
\* times out, or the child's output ends first; pexpect.EOF is matched by the
\* end of the output, or the wait times out.
expect_outcomes(question) ==
    IF question = "EOF" THEN {"match", "TIMEOUT"}
    ELSE {"match", "TIMEOUT", "EOF"}

----------------------------------------------------------------------------
(* The program *)

\* the object the methods run on
self == EXPECT[1]

Init ==
    /\ argv = None
    /\ args \in Calls
    /\ EXPECT = <<>>
    /\ pc = "init"
    /\ err = NoError
    /\ script = NoScript
    /\ child = NoChild
    /\ log = <<>>

\* An exception leaves run(); nothing catches it (line 287).
Raise(e, events) ==
    /\ pc' = "failed"
    /\ err' = e
    /\ log' = events \o << <<"raise", e.type>> >>

\* EXPECT = PexpectTensorFlowConfigure(**vars(CONFIG))
PexpectTensorFlowConfigure ==
    /\ pc = "init"
    /\ IF init_checks(args) # NoError
       THEN /\ Raise(init_checks(args), log)
            /\ UNCHANGED <<argv, args, EXPECT, script, child>>
       ELSE /\ EXPECT' = <<init_fields(args)>>
            /\ pc' = "spawn"
            /\ UNCHANGED <<argv, args, err, script, child, log>>

\* run_spawn resolving the command and storing it back in the object
run_spawn_resolved ==
    /\ pc = "spawn"
    /\ EXPECT' = <<[self EXCEPT !.command = <<"/">> \o self.command]>>
    /\ script' = [spawn(self.command) EXCEPT !.timeout = Timeout]
    /\ child' = [state |-> "running", exitstatus |-> 0]
    /\ log' = Append(log, <<"spawn">>)
    /\ pc' = "python_bin"
    /\ UNCHANGED <<argv, args, err>>

\* lines 226-227
run_spawn ==
    /\ pc = "spawn"
    /\ script' = [spawn(self.command) EXCEPT !.timeout = Timeout]
    /\ child' = [state |-> "running", exitstatus |-> 0]
    /\ log' = Append(log, <<"spawn">>)
    /\ pc' = "python_bin"
    /\ UNCHANGED <<argv, args, EXPECT, err>>

\* print_after echoing whether or not anything was matched before
print_after_always(events) == Append(events, <<"print_after">>)

\* lines 214-215
print_after(events) ==
    IF ~IsNone(script.after) THEN Append(events, <<"print_after">>)
    ELSE events

\* lines 217-218: sendline writes the answer and a line separator, so an
\* answer is one line of the child's input.
send_answer(question, answer, events) ==
    IF ~IsNone(answer)
    THEN Append(events, <<"sendline", question, Val(answer)>>)
    ELSE events

\* lines 219-220: after a match, before is the output that preceded it.
print_before(question, events) == Append(events, <<"print_before", question>>)

\* expect_failed swallowing the exception: the same prompt is awaited again
expect_failed_retry(outcome, waiting) ==
    /\ script' = [script EXCEPT
                    !.before = Some(<<"buffer">>),
                    !.after = Some(<<outcome>>)]
    /\ pc' = pc
    /\ err' = err
    /\ log' = waiting

\* line 216 raising pexpect.TIMEOUT or pexpect.EOF: the exception leaves
\* _pexpect_line_answer and run().
expect_failed(outcome, waiting) ==
    /\ script' = [script EXCEPT
                    !.before = Some(<<"buffer">>),
                    !.after = Some(<<outcome>>)]
    /\ Raise(PexpectError(outcome), waiting)

\* _pexpect_line_answer(question, answer), followed by the statement after
\* the call: the step `next`, or the exception `exc` raised there.
pexpect_line_answer(question, answer, next, exc) ==
    \E outcome \in expect_outcomes(question), code \in ExitCodes :
        LET waiting == Append(print_after(log), <<"expect", question>>)
            ends == outcome = "EOF" \/ (question = "EOF" /\ outcome = "match")
        IN
        /\ ends \/ code = 0
        /\ child' = IF ends THEN [state |-> "ended", exitstatus |-> code]
                    ELSE child
        /\ IF outcome = "match"
           THEN LET done == print_before(question,
                              send_answer(question, answer,
                                Append(waiting, <<"match", question>>)))
                IN
                /\ script' = [script EXCEPT
                                !.before = Some(<<"before", question>>),
                                !.after = Some(<<"match", question>>)]
                /\ IF exc = NoError
                   THEN pc' = next /\ log' = done /\ err' = err
                   ELSE Raise(exc, done)
           ELSE expect_failed(outcome, waiting)
        /\ UNCHANGED <<argv, args, EXPECT>>

\* after_cuda asking for a fresh clang whatever with_cuda is
after_cuda_fresh(o) == "fresh_clang"

\* line 243
after_cuda(o) ==
    IF bool_y_n_bool(o.with_cuda) THEN "cuda_version" ELSE "fresh_clang"

\* after_tensorrt never asking for the TensorRT path
after_tensorrt_skip(o) == "cuda_nccl_version"

\* line 251
after_tensorrt(o) ==
    IF bool_y_n_bool(o.cuda_with_tensorrt) THEN "cuda_tensorrt_path"
    ELSE "cuda_nccl_version"

\* lines 260-261
after_clang(o) ==
    IF bool_y_n_bool(o.cuda_with_clang)
    THEN NotImplemented("cuda_with_clang=True")
    ELSE NoError

\* after_mpi never asking for the MPI path
after_mpi_skip(o) == "opts_flags"

\* line 271
after_mpi(o) ==
    IF bool_y_n_bool(o.with_mpi) THEN "mpi_path" ELSE "opts_flags"

\* a bool_y_n passed as the answer
yn(b) == Some(bool_y_n_str(b))

\* run_python_bin taking the interpreter path without looking for the file
run_python_bin_unchecked ==
    /\ pc = "python_bin"
    /\ pexpect_line_answer("python_bin", Some(python_bin_path(self)),
                           "python_lib", NoError)

\* line 229
run_python_bin ==
    /\ pc = "python_bin"
    /\ IF python_bin_path_ok(self)
       THEN pexpect_line_answer("python_bin", Some(python_bin_path(self)),
                                "python_lib", NoError)
       ELSE /\ Raise(DoesNotExist(python_bin_path(self)), log)
            /\ UNCHANGED <<argv, args, EXPECT, script, child>>

\* line 230
run_python_lib ==
    /\ pc = "python_lib"
    /\ IF python_dist_path_ok(self)
       THEN pexpect_line_answer("python_lib", Some(python_dist_path(self)),
                                "with_jemalloc", NoError)
       ELSE /\ Raise(DoesNotExist(python_dist_path(self)), log)
            /\ UNCHANGED <<argv, args, EXPECT, script, child>>

\* line 231
run_jemalloc ==
    /\ pc = "with_jemalloc"
    /\ pexpect_line_answer("with_jemalloc", yn(self.with_jemalloc),
                           "with_google_cloud_platform", NoError)

\* line 232
run_google_cloud_platform ==
    /\ pc = "with_google_cloud_platform"
    /\ pexpect_line_answer("with_google_cloud_platform",
                           yn(self.with_google_cloud_platform),
                           "with_hdfs", NoError)

\* line 233
run_hdfs ==
    /\ pc = "with_hdfs"
    /\ pexpect_line_answer("with_hdfs", yn(self.with_hdfs),
                           "with_amazon_s3", NoError)

\* line 234
run_amazon_s3 ==
    /\ pc = "with_amazon_s3"
    /\ pexpect_line_answer("with_amazon_s3", yn(self.with_amazon_s3),
                           "with_kafka", NoError)

\* line 235
run_kafka ==
    /\ pc = "with_kafka"
    /\ pexpect_line_answer("with_kafka", yn(self.with_kafka),
                           "with_xla_jit", NoError)

\* line 236
run_xla_jit ==
    /\ pc = "with_xla_jit"
    /\ pexpect_line_answer("with_xla_jit", yn(self.with_xla_jit),
                           "with_gdr", NoError)

\* line 237
run_gdr ==
    /\ pc = "with_gdr"
    /\ pexpect_line_answer("with_gdr", yn(self.with_gdr),
                           "with_verbs", NoError)

\* line 238
run_verbs ==
    /\ pc = "with_verbs"
    /\ pexpect_line_answer("with_verbs", yn(self.with_verbs),
                           "with_opencl_sycl", NoError)

\* line 239
run_opencl_sycl ==
    /\ pc = "with_opencl_sycl"
    /\ pexpect_line_answer("with_opencl_sycl", yn(self.with_opencl_sycl),
                           "with_cuda", NoError)

\* lines 240-243
run_cuda ==
    /\ pc = "with_cuda"
    /\ pexpect_line_answer("with_cuda", yn(self.with_cuda),
                           after_cuda(self), NoError)

\* line 244
run_cuda_version ==
    /\ pc = "cuda_version"
    /\ pexpect_line_answer("cuda_version", self.cuda_version,
                           "cuda_path", NoError)

\* line 245
run_cuda_path ==
    /\ pc = "cuda_path"
    /\ pexpect_line_answer("cuda_path", self.cuda_path,
                           "cuda_cudnn_version", NoError)

\* line 246
run_cuda_cudnn_version ==
    /\ pc = "cuda_cudnn_version"
    /\ pexpect_line_answer("cuda_cudnn_version", self.cuda_cudnn_version,
                           "cuda_cudnn_path", NoError)

\* line 247
run_cuda_cudnn_path ==
    /\ pc = "cuda_cudnn_path"
    /\ pexpect_line_answer("cuda_cudnn_path", self.cuda_cudnn_path,
                           "cuda_with_tensorrt", NoError)

\* lines 248-251
run_cuda_with_tensorrt ==
    /\ pc = "cuda_with_tensorrt"
    /\ pexpect_line_answer("cuda_with_tensorrt", yn(self.cuda_with_tensorrt),
                           after_tensorrt(self), NoError)

\* line 252
run_cuda_tensorrt_path ==
    /\ pc = "cuda_tensorrt_path"
    /\ pexpect_line_answer("cuda_tensorrt_path", self.cuda_tensorrt_path,
                           "cuda_nccl_version", NoError)

\* line 254
run_cuda_nccl_version ==
    /\ pc = "cuda_nccl_version"
    /\ pexpect_line_answer("cuda_nccl_version", self.cuda_nccl_version,
                           "cuda_capabilities", NoError)

\* line 255
run_cuda_capabilities ==
    /\ pc = "cuda_capabilities"
    /\ pexpect_line_answer("cuda_capabilities",
                           Some(cuda_capabilities_str(self)),
                           "cuda_with_clang", NoError)

\* lines 257-261
run_cuda_with_clang ==
    /\ pc = "cuda_with_clang"
    /\ pexpect_line_answer("cuda_with_clang", yn(self.cuda_with_clang),
                           "cuda_gcc_path", after_clang(self))

\* line 263
run_cuda_gcc_path ==
    /\ pc = "cuda_gcc_path"
    /\ pexpect_line_answer("cuda_gcc_path", self.cuda_gcc_path,
                           "with_mpi", NoError)

\* line 267
run_fresh_clang ==
    /\ pc = "fresh_clang"
    /\ pexpect_line_answer("fresh_clang", yn(self.with_fresh_clang),
                           "with_mpi", NoError)

\* lines 270-271
run_mpi ==
    /\ pc = "with_mpi"
    /\ pexpect_line_answer("with_mpi", yn(self.with_mpi),
                           after_mpi(self), NoError)

\* line 272
run_mpi_path ==
    /\ pc = "mpi_path"
    /\ pexpect_line_answer("mpi_path", self.mpi_path, "opts_flags", NoError)

\* line 274
run_opts_flags ==
    /\ pc = "opts_flags"
    /\ pexpect_line_answer("opts_flags", Some(opts_flags_str(self)),
                           "android", NoError)

\* line 275
run_android ==
    /\ pc = "android"
    /\ pexpect_line_answer("android", Some(<<"N">>), "finished", NoError)

\* run_finished taking the completion marker for the end of the run
run_finished_terminal ==
    /\ pc = "finished"
    /\ pexpect_line_answer("finished", None, "done", NoError)

\* line 276
run_finished ==
    /\ pc = "finished"
    /\ pexpect_line_answer("finished", None, "EOF", NoError)

\* line 277: run() returns
run_eof ==
    /\ pc = "EOF"
    /\ pexpect_line_answer("EOF", None, "done", NoError)

Next ==
    \/ PexpectTensorFlowConfigure
    \/ run_spawn
    \/ run_python_bin
    \/ run_python_lib
    \/ run_jemalloc
    \/ run_google_cloud_platform
    \/ run_hdfs
    \/ run_amazon_s3
    \/ run_kafka
    \/ run_xla_jit
    \/ run_gdr
    \/ run_verbs
    \/ run_opencl_sycl
    \/ run_cuda
    \/ run_cuda_version
    \/ run_cuda_path
    \/ run_cuda_cudnn_version
    \/ run_cuda_cudnn_path
    \/ run_cuda_with_tensorrt
    \/ run_cuda_tensorrt_path
    \/ run_cuda_nccl_version
    \/ run_cuda_capabilities
    \/ run_cuda_with_clang
    \/ run_cuda_gcc_path
    \/ run_fresh_clang
    \/ run_mpi
    \/ run_mpi_path
    \/ run_opts_flags
    \/ run_android
    \/ run_finished
    \/ run_eof

Spec == Init /\ [][Next]_vars

----------------------------------------------------------------------------
(* The program run from its command line (lines 280-287) *)

\* the store_true options of the parser (lines 180-200) and their dest
SwitchDest ==
    { <<"--with-jemalloc", "with_jemalloc">>,
      <<"--with-google-cloud-platform", "with_google_cloud_platform">>,
      <<"--with-hdfs", "with_hdfs">>,
      <<"--with-amazon-s3", "with_amazon_s3">>,
      <<"--with-kafka", "with_kafka">>,
      <<"--with-xla-jit", "with_xla_jit">>,
      <<"--with-gdr", "with_gdr">>,
      <<"--with-opencl-sycl", "with_opencl_sycl">>,
      <<"--with-cuda", "with_cuda">>,
      <<"--with-fresh-clang", "with_fresh_clang">>,
      <<"--with-mpi", "with_mpi">>,
      <<"--cuda-with-tensorrt", "cuda_with_tensorrt">>,
      <<"--cuda-with-clang", "cuda_with_clang">> }

KnownSwitches == { p[1] : p \in SwitchDest }

\* whether the switch whose dest is d was given
given(switches, d) == \E p \in SwitchDest : p[2] = d /\ p[1] \in switches

\* the switches a command line may carry: those of the parser and one for
\* the VERBS prompt of line 238
AllSwitches == KnownSwitches \cup { "--with-verbs" }

\* the valued options (lines 192-205): none given, or all given
NoOptions ==
    [ cuda_version |-> None, cuda_path |-> None,
      cuda_cudnn_version |-> None, cuda_cudnn_path |-> None,
      cuda_tensorrt_path |-> None, cuda_nccl_version |-> None,
      cuda_capabilities |-> None, cuda_gcc_path |-> None,
      mpi_path |-> None, opts_flags |-> None ]

AllOptions ==
    [ cuda_version |-> Some(Ver90), cuda_path |-> Some(CudaDir),
      cuda_cudnn_version |-> Some(Ver7), cuda_cudnn_path |-> Some(CudaDir),
      cuda_tensorrt_path |-> Some(TrtDir), cuda_nccl_version |-> Some(Ver2),
      cuda_capabilities |-> Some(Caps), cuda_gcc_path |-> Some(GccBin),
      mpi_path |-> Some(MpiDir), opts_flags |-> Some(OptFlags) ]

CommandLines ==
    { [ command |-> ConfigureScript, python_version |-> V36,
        switches |-> sw, options |-> o ] :
      sw \in { x \in SUBSET AllSwitches : Cardinality(x) <= MaxSwitches },
      o \in { NoOptions, AllOptions } }

\* parser.parse_args() ends the program on an argument it does not know
SystemExit(unknown) ==
    [type |-> "SystemExit", msg |-> <<"unrecognized", "arguments">>]

\* vars(parser.parse_args()): one entry per add_argument of lines 177-205
command_line_args(av) ==
    [ command |-> av.command,
      python_version |-> av.python_version,
      with_jemalloc |-> given(av.switches, "with_jemalloc"),
      with_google_cloud_platform |->
          given(av.switches, "with_google_cloud_platform"),
      with_hdfs |-> given(av.switches, "with_hdfs"),
      with_amazon_s3 |-> given(av.switches, "with_amazon_s3"),
      with_kafka |-> given(av.switches, "with_kafka"),
      with_xla_jit |-> given(av.switches, "with_xla_jit"),
      with_gdr |-> given(av.switches, "with_gdr"),
      with_opencl_sycl |-> given(av.switches, "with_opencl_sycl"),
      with_cuda |-> given(av.switches, "with_cuda"),
      with_fresh_clang |-> given(av.switches, "with_fresh_clang"),
      with_mpi |-> given(av.switches, "with_mpi"),
      cuda_version |-> av.options.cuda_version,
      cuda_path |-> av.options.cuda_path,
      cuda_cudnn_version |-> av.options.cuda_cudnn_version,
      cuda_cudnn_path |-> av.options.cuda_cudnn_path,
      cuda_with_tensorrt |-> given(av.switches, "cuda_with_tensorrt"),
      cuda_tensorrt_path |-> av.options.cuda_tensorrt_path,
      cuda_nccl_version |-> av.options.cuda_nccl_version,
      cuda_capabilities |-> av.options.cuda_capabilities,
      cuda_with_clang |-> given(av.switches, "cuda_with_clang"),
      cuda_gcc_path |-> av.options.cuda_gcc_path,
      mpi_path |-> av.options.mpi_path,
      opts_flags |-> av.options.opts_flags ]

\* the parameters of __init__ that the keyword arguments do not name take
\* their default: with_verbs = False (line 53)
with_defaults(kwargs) == kwargs @@ [with_verbs |-> FALSE]

CliInit ==
    /\ argv \in { Some(av) : av \in CommandLines }
    /\ args = None
    /\ EXPECT = <<>>
    /\ pc = "parse"
    /\ err = NoError
    /\ script = NoScript
    /\ child = NoChild
    /\ log = <<>>

\* line 283: CONFIG = PexpectTensorFlowConfigure.command_line_args()
main_command_line_args ==
    /\ pc = "parse"
    /\ IF Val(argv).switches \subseteq KnownSwitches
       THEN /\ args' = with_defaults(command_line_args(Val(argv)))
            /\ pc' = "init"
            /\ UNCHANGED <<err, log>>
       ELSE /\ Raise(SystemExit(Val(argv).switches \ KnownSwitches), log)
            /\ UNCHANGED args
    /\ UNCHANGED <<argv, EXPECT, script, child>>

CliNext == main_command_line_args \/ Next

CliSpec == CliInit /\ [][CliNext]_vars

----------------------------------------------------------------------------
(* The two list renderings on their own: an object holding a list, whose   *)
(* properties opts_flags_str and cuda_capabilities_str are read.           *)

RenderElements ==
    { <<"3",".","5">>,
      <<" ","5",".","2"," ">>,
      <<" ","-","m","a","r","c","h","=","n","a","t","i","v","e">>,
      <<" ","-","m","a","v","x","2">> }

RECURSIVE Lists(_)
Lists(n) ==
    IF n = 0 THEN { <<>> }
    ELSE Lists(n - 1)
         \cup { Append(l, e) : l \in Lists(n - 1), e \in RenderElements }

RenderInit ==
    /\ argv = None
    /\ \E l \in Lists(MaxListLen), o \in BOOLEAN :
         args = [MinimalArgs EXCEPT
                   !.cuda_capabilities = Some(l),
                   !.opts_flags = IF o THEN Some(l) ELSE None]
    /\ EXPECT = <<init_fields(args)>>
    /\ pc = "properties"
    /\ err = NoError
    /\ script = NoScript
    /\ child = NoChild
    /\ log = <<>>

\* reading self.opts_flags_str
get_opts_flags_str ==
    /\ pc = "properties"
    /\ \A i \in 1..Len(log) : log[i][1] # "opts_flags_str"
    /\ log' = Append(log, <<"opts_flags_str", opts_flags_str(self)>>)
    /\ UNCHANGED <<argv, args, EXPECT, pc, err, script, child>>

\* reading self.cuda_capabilities_str
get_cuda_capabilities_str ==
    /\ pc = "properties"
    /\ \A i \in 1..Len(log) : log[i][1] # "cuda_capabilities_str"
    /\ log' = Append(log, <<"cuda_capabilities_str",
                            cuda_capabilities_str(self)>>)
    /\ UNCHANGED <<argv, args, EXPECT, pc, err, script, child>>

RenderNext == get_opts_flags_str \/ get_cuda_capabilities_str

RenderSpec == RenderInit /\ [][RenderNext]_vars

----------------------------------------------------------------------------
(* What the log shows *)

Events(kind) == SelectSeq(log, LAMBDA e : e[1] = kind)

\* component k of the events of one kind, oldest first
Project(events, kind, k) ==
    LET ev == SelectSeq(events, LAMBDA e : e[1] = kind)
    IN [i \in 1..Len(ev) |-> ev[i][k]]

\* the prompts awaited, matched and answered, oldest first
Awaited == Project(log, "expect", 2)
Matched == Project(log, "match", 2)
Answered == Project(log, "sendline", 2)

\* the lines sent to the child, oldest first
SentLines == Project(log, "sendline", 3)

IsPrefix(s, t) == Len(s) <= Len(t) /\ s = SubSeq(t, 1, Len(s))

Constructed == ~IsNone(EXPECT)

\* script.expect raised: pexpect leaves the exception class in script.after
ExpectFailed == script.after \in {Some(<<"TIMEOUT">>), Some(<<"EOF">>)}

GpuPrompts ==
    { "cuda_version", "cuda_path", "cuda_cudnn_version", "cuda_cudnn_path",
      "cuda_with_tensorrt", "cuda_tensorrt_path", "cuda_nccl_version",
      "cuda_capabilities", "cuda_with_clang", "cuda_gcc_path" }

\* the documented order of the prompt states
PromptOrder ==
    << "python_bin", "python_lib",
       "with_jemalloc", "with_google_cloud_platform", "with_hdfs",
       "with_amazon_s3", "with_kafka", "with_xla_jit", "with_gdr",
       "with_verbs", "with_opencl_sycl",
       "with_cuda",
       "cuda_version", "cuda_path", "cuda_cudnn_version", "cuda_cudnn_path",
       "cuda_with_tensorrt", "cuda_tensorrt_path", "cuda_nccl_version",
       "cuda_capabilities", "cuda_with_clang", "cuda_gcc_path",
       "fresh_clang",
       "with_mpi", "mpi_path",
       "opts_flags", "android", "finished", "EOF" >>

\* whether the flags of object o put prompt p on the path
OnPath(o, p) ==
    IF p = "cuda_tensorrt_path"
    THEN o.with_cuda.value /\ o.cuda_with_tensorrt.value
    ELSE IF p \in GpuPrompts THEN o.with_cuda.value
    ELSE IF p = "fresh_clang" THEN ~o.with_cuda.value
    ELSE IF p = "mpi_path" THEN o.with_mpi.value
    ELSE TRUE

Path(o) == SelectSeq(PromptOrder, LAMBDA p : OnPath(o, p))

----------------------------------------------------------------------------
(* C1: the prompts awaited so far are always an initial part of the        *)
(* documented order restricted to the states the flags enable: every       *)
(* state is awaited at most once, in order, never revisited, and the MPI   *)
(* path prompt is awaited exactly when the MPI flag is set.                *)
C1_LinearWalk ==
    LET awaited == Awaited IN
    /\ ~Constructed => awaited = <<>>
    /\ Constructed =>
         /\ IsPrefix(awaited, Path(self))
         /\ Cardinality(Range(awaited)) = Len(awaited)
         /\ "opts_flags" \in Range(awaited) =>
              ("mpi_path" \in Range(awaited) <=> self.with_mpi.value)
         /\ "mpi_path" \in Range(awaited) => self.with_mpi.value

C1_Witness ==
    /\ pc = "done"
    /\ self.with_mpi.value
    /\ self.with_cuda.value
    /\ "mpi_path" \in Range(Awaited)
    /\ Awaited = Path(self)

(* C2: the fresh-clang prompt is awaited only with the GPU flag unset and  *)
(* the GPU prompts only with it set, never both in one run; once the run   *)
(* is past the branch exactly one side was awaited; the fresh-clang answer *)
(* is the Y/N of with_fresh_clang.                                         *)
C2_GpuBranchExclusive ==
    LET awaited == Range(Awaited)
        answered == Answered
        lines == SentLines
    IN
    Constructed =>
      /\ "fresh_clang" \in awaited => ~self.with_cuda.value
      /\ awaited \cap GpuPrompts # {} => self.with_cuda.value
      /\ ~("fresh_clang" \in awaited /\ awaited \cap GpuPrompts # {})
      /\ "with_mpi" \in awaited =>
           ("fresh_clang" \in awaited <=> ~self.with_cuda.value)
      /\ "with_mpi" \in awaited =>
           ("cuda_version" \in awaited <=> self.with_cuda.value)
      /\ \A i \in 1..Len(answered) :
           answered[i] = "fresh_clang" =>
             lines[i] = IF self.with_fresh_clang.value THEN <<"Y">>
                        ELSE <<"N">>
      /\ "fresh_clang" \in Range(Matched) => "fresh_clang" \in Range(answered)

C2_Witness ==
    /\ pc = "done"
    /\ ~self.with_cuda.value
    /\ self.with_fresh_clang.value
    /\ \E i \in 1..Len(Answered) :
         Answered[i] = "fresh_clang" /\ SentLines[i] = <<"Y">>

\* the lines sent in answer to the prompts of the GPU branch
GpuSentLines ==
    Project(SelectSeq(Events("sendline"), LAMBDA e : e[2] \in GpuPrompts),
            "sendline", 3)

GpuAnswers(o) ==
    << Val(o.cuda_version), Val(o.cuda_path), Val(o.cuda_cudnn_version),
       Val(o.cuda_cudnn_path),
       IF o.cuda_with_tensorrt.value THEN <<"Y">> ELSE <<"N">> >>
    \o (IF o.cuda_with_tensorrt.value THEN << Val(o.cuda_tensorrt_path) >>
        ELSE <<>>)
    \o << Val(o.cuda_nccl_version),
          join(<<",">>, stripAll(Val(o.cuda_capabilities))),
          IF o.cuda_with_clang.value THEN <<"Y">> ELSE <<"N">>,
          Val(o.cuda_gcc_path) >>

(* C3: with the GPU flag set, the lines sent inside the GPU branch are an  *)
(* initial part of: toolkit version, toolkit path, cuDNN version, cuDNN    *)
(* path, TensorRT Y/N, the TensorRT path iff TensorRT is enabled, NCCL     *)
(* version, comma-joined capabilities, clang Y/N, host-compiler path; all  *)
(* of them were sent when the MPI prompt is awaited, which comes right     *)
(* after the host-compiler prompt; a run whose every prompt matched ends   *)
(* as a success.                                                           *)
C3_GpuBranchAnswers ==
    LET awaited == Awaited
        lines == GpuSentLines
    IN
    (Constructed /\ self.with_cuda.value) =>
      /\ IsPrefix(lines, GpuAnswers(self))
      /\ \A i \in 1..Len(awaited) :
           awaited[i] = "with_mpi" =>
             /\ lines = GpuAnswers(self)
             /\ awaited[i - 1] = "cuda_gcc_path"
      /\ (Matched = Path(self)) => pc = "done" /\ err = NoError

C3_Witness ==
    /\ pc = "done"
    /\ self.with_cuda.value
    /\ self.cuda_with_tensorrt.value
    /\ GpuSentLines = GpuAnswers(self)
    /\ Len(GpuSentLines) = 10

\* every feature flag false, GPU, fresh clang and MPI false, no
\* optimization flags, an installed interpreter version
IsMinimal(o) ==
    /\ \A f \in FeatureFlags \cup
                {"with_opencl_sycl", "with_cuda", "with_fresh_clang",
                 "with_mpi"} : ~o[f].value
    /\ IsNone(o.opts_flags) \/ Val(o.opts_flags) = <<>>
    /\ o.python_version \in {V36, V26}

\* the interpreter binary and library directory of the installed versions
InterpreterLines(version) ==
    IF version = <<"3",".","6">>
    THEN << <<"/","u","s","r","/","b","i","n","/","p","y","t","h","o","n",
              "3",".","6">>,
            <<"/","u","s","r","/","l","i","b","/","p","y","t","h","o","n",
              "3","/","d","i","s","t","-","p","a","c","k","a","g","e","s">> >>
    ELSE << <<"/","u","s","r","/","b","i","n","/","p","y","t","h","o","n",
              "2",".","6">>,
            <<"/","u","s","r","/","l","i","b","/","p","y","t","h","o","n",
              "2",".","6",
              "/","d","i","s","t","-","p","a","c","k","a","g","e","s">> >>

MinimalLines(o) ==
    InterpreterLines(o.python_version)
    \o << <<"N">>, <<"N">>, <<"N">>, <<"N">>, <<"N">>, <<"N">>, <<"N">>,
          <<"N">>, <<"N">>,
          <<"N">>, <<"N">>, <<"N">>,
          <<>>,
          <<"N">> >>

(* C4: a minimal configuration sends, in this order and nothing else, the  *)
(* interpreter binary, the library directory, nine "N", "N" for GPU, "N"   *)
(* for fresh clang, "N" for MPI, an empty line and "N" for the mobile      *)
(* prompt; it awaits no GPU or MPI-path prompt; and when every prompt      *)
(* matched the run is a success with exactly these lines sent.             *)
C4_MinimalRun ==
    LET lines == SentLines IN
    (Constructed /\ IsMinimal(self)) =>
      /\ IsPrefix(lines, MinimalLines(self))
      /\ Range(Awaited) \cap (GpuPrompts \cup {"mpi_path"}) = {}
      /\ "finished" \in Range(Matched) => lines = MinimalLines(self)
      /\ pc = "done" => lines = MinimalLines(self) /\ err = NoError
      /\ Matched = Path(self) => pc = "done"

C4_Witness ==
    /\ pc = "done"
    /\ IsMinimal(self)
    /\ SentLines = MinimalLines(self)
    /\ Len(SentLines) = 16
    /\ Matched[Len(Matched) - 1] = "finished"

(* C5: a raised exception is the last thing that happens; when an expect   *)
(* timed out or met the end of the child's output, the run has failed with *)
(* that error, the prompt it waited for was awaited once, was not matched  *)
(* and not answered, and nothing was awaited or sent afterwards.           *)
C5_FailStop ==
    /\ \A i \in 1..Len(log) :
         log[i][1] = "raise" => i = Len(log) /\ pc = "failed"
    /\ pc = "failed" => err # NoError /\ log[Len(log)][1] = "raise"
    /\ ExpectFailed =>
         LET awaited == Awaited
             p == awaited[Len(awaited)]
         IN
         /\ pc = "failed"
         /\ err.type \in {"TIMEOUT", "EOF"}
         /\ log[Len(log)] = <<"raise", err.type>>
         /\ log[Len(log) - 1] = <<"expect", p>>
         /\ p \notin Range(Matched)
         /\ p \notin Range(Answered)
         /\ \A i \in 1..(Len(awaited) - 1) : awaited[i] # p

C5_Witness ==
    /\ pc = "failed"
    /\ err.type = "EOF"
    /\ Awaited = <<"python_bin", "python_lib">>
    /\ Answered = <<"python_bin">>

(* C6: once run() has returned or raised after the spawn, the child        *)
(* process handle is closed.                                               *)
C6_HandleReleased ==
    (pc \in {"done", "failed"} /\ script.state = "spawned") => script.closed

(* C7: the run is a success exactly when the end of the child's output was *)
(* matched, which happens only right after the completion marker was       *)
(* matched; a timeout while waiting for the end of the output fails the    *)
(* run; the exit code of the child plays no part.                          *)
C7_SuccessOnlyAtEof ==
    LET matched == Matched IN
    /\ pc = "done" <=> (Len(matched) > 0 /\ matched[Len(matched)] = "EOF")
    /\ pc = "done" =>
         /\ Len(matched) >= 2
         /\ matched[Len(matched) - 1] = "finished"
         /\ child.state = "ended"
         /\ err = NoError
    /\ ("finished" \in Range(matched) /\ ExpectFailed) =>
         /\ pc = "failed"
         /\ err.type = "TIMEOUT"
         /\ Awaited[Len(Awaited)] = "EOF"

C7_Witness ==
    /\ pc = "done"
    /\ child.exitstatus = 1
    /\ Matched[Len(Matched)] = "EOF"

(* C8: a constructor call with with_opencl_sycl or cuda_with_clang set     *)
(* fails whatever the other arguments are, and no object has either flag   *)
(* true.                                                                   *)
C8_UnimplementedRejected ==
    /\ (pc # "init" /\ (args.with_opencl_sycl \/ args.cuda_with_clang)) =>
         /\ ~Constructed
         /\ pc = "failed"
         /\ err.type \in {"AssertionError", "NotImplementedError"}
         /\ exists(args.command) => err.type = "NotImplementedError"
    /\ Constructed =>
         ~self.with_opencl_sycl.value /\ ~self.cuda_with_clang.value

C8_Witness ==
    /\ pc = "failed"
    /\ args.with_opencl_sycl
    /\ args.with_cuda
    /\ args.with_mpi
    /\ err = NotImplemented("with_opencl_sycl=True")

\* the checks that do not concern the GPU fields pass
OtherChecksPass(a) ==
    /\ exists(a.command)
    /\ ~a.with_opencl_sycl
    /\ a.with_mpi => (~IsNone(a.mpi_path) /\ exists(Val(a.mpi_path)))

(* C9 as stated: with the GPU flag unset, no GPU-specific field, the       *)
(* alternate-GPU-compiler flag included, can make the construction fail.   *)
C9_GpuFieldsIgnored ==
    (pc # "init" /\ ~args.with_cuda /\ OtherChecksPass(args)) => Constructed

(* C9 amended: with the GPU flag and the alternate-GPU-compiler flag       *)
(* unset, the construction succeeds whatever the other GPU-specific fields *)
(* contain.                                                                *)
C9_GpuFieldsIgnoredButClang ==
    (pc # "init" /\ ~args.with_cuda /\ ~args.cuda_with_clang
       /\ OtherChecksPass(args))
    => Constructed

C9_Witness ==
    /\ Constructed
    /\ ~args.with_cuda
    /\ args.cuda_path = Some(NoSuchPath)

RequiredGpuFields ==
    { "cuda_version", "cuda_path", "cuda_cudnn_version", "cuda_cudnn_path",
      "cuda_nccl_version", "cuda_capabilities", "cuda_gcc_path" }

\* absent, empty, or a path that does not exist
GpuFieldBad(a, f) ==
    \/ IsNone(a[f])
    \/ Val(a[f]) = <<>>
    \/ f \in PathFields /\ ~exists(Val(a[f]))

(* C10: with the GPU flag set, a required GPU sub-field that is absent,    *)
(* empty or a non-existent path makes the construction fail, and when it   *)
(* is the only such field the error message names it.                      *)
C10_GpuFieldRequired ==
    (pc # "init" /\ args.with_cuda /\ exists(args.command)
       /\ ~args.with_opencl_sycl /\ ~args.cuda_with_clang) =>
      \A f \in RequiredGpuFields :
        GpuFieldBad(args, f) =>
          /\ ~Constructed
          /\ (\A g \in RequiredGpuFields \ {f} : ~GpuFieldBad(args, g)) =>
               err.msg[1] = f


\* a value that is absent or names a path that does not exist
PathMissing(o) == IsNone(o) \/ ~exists(Val(o))

\* some precondition of the constructor is violated: the command path, an
\* unimplemented flag, an absent GPU field or non-existent GPU path, the
\* TensorRT path, the MPI path
PreconditionViolated(a) ==
    \/ ~exists(a.command)
    \/ a.with_opencl_sycl
    \/ a.cuda_with_clang
    \/ /\ a.with_cuda
       /\ \/ \E f \in RequiredGpuFields : IsNone(a[f])
          \/ \E f \in {"cuda_path", "cuda_cudnn_path", "cuda_gcc_path"} :
               PathMissing(a[f])
          \/ a.cuda_with_tensorrt /\ PathMissing(a.cuda_tensorrt_path)
    \/ a.with_mpi /\ PathMissing(a.mpi_path)

(* C11: when a precondition of the configuration is violated the program   *)
(* ends with the exception of the constructor: no child is spawned, no     *)
(* prompt is awaited and no line is sent, in any state of the execution.   *)
C11_FailBeforeSpawn ==
    (pc # "init" /\ PreconditionViolated(args)) =>
      /\ pc = "failed"
      /\ ~Constructed
      /\ err.type \in {"AssertionError", "NotImplementedError"}
      /\ log = << <<"raise", err.type>> >>
      /\ script = NoScript
      /\ child = NoChild

C11_Witness ==
    /\ pc = "failed"
    /\ args.with_cuda
    /\ args.cuda_with_tensorrt
    /\ args.cuda_tensorrt_path = Some(NoSuchPath)
    /\ err = NonExisting("cuda_tensorrt_path", "folder")
    /\ script = NoScript

(* C12: an object with the MPI flag set exists only if the MPI path was    *)
(* supplied and exists; with the flag set and the path absent or           *)
(* non-existent the construction fails; with the flag unset the path is    *)
(* not checked.  The TensorRT path is required and checked exactly when    *)
(* the GPU flag and the TensorRT flag are both set.                        *)
C12_MpiAndTensorRtPaths ==
    pc # "init" =>
      /\ (Constructed /\ args.with_mpi) => ~PathMissing(args.mpi_path)
      /\ (args.with_mpi /\ PathMissing(args.mpi_path)) => ~Constructed
      /\ (Constructed /\ args.with_cuda /\ args.cuda_with_tensorrt) =>
           ~PathMissing(args.cuda_tensorrt_path)
      /\ (args.with_cuda /\ args.cuda_with_tensorrt
            /\ PathMissing(args.cuda_tensorrt_path)) => ~Constructed
      /\ LET others == [args EXCEPT !.mpi_path = Some(MpiDir),
                                    !.cuda_tensorrt_path = Some(TrtDir)]
         IN (~PreconditionViolated(others)
               /\ (PathMissing(args.mpi_path) => ~args.with_mpi)
               /\ (PathMissing(args.cuda_tensorrt_path) =>
                     ~(args.with_cuda /\ args.cuda_with_tensorrt)))
            => Constructed

C12_Witness ==
    /\ Constructed
    /\ args.with_cuda
    /\ ~args.cuda_with_tensorrt
    /\ args.cuda_tensorrt_path = Some(NoSuchPath)
    /\ ~args.with_mpi


\* the pieces of s between the occurrences of the character sep
RECURSIVE Split(_, _)
Split(s, sep) ==
    IF \A i \in 1..Len(s) : s[i] # sep THEN << s >>
    ELSE LET k == CHOOSE i \in 1..Len(s) :
                    s[i] = sep /\ \A j \in 1..(i - 1) : s[j] # sep
         IN << SubSeq(s, 1, k - 1) >> \o Split(SubSeq(s, k + 1, Len(s)), sep)

\* p is e without its leading and trailing whitespace
IsTrimOf(p, e) ==
    /\ Len(p) > 0 => (p[1] \notin Whitespace /\ p[Len(p)] \notin Whitespace)
    /\ \E k \in 0..(Len(e) - Len(p)) :
         /\ SubSeq(e, k + 1, k + Len(p)) = p
         /\ \A j \in 1..k : e[j] \in Whitespace
         /\ \A j \in (k + Len(p) + 1)..Len(e) : e[j] \in Whitespace

\* r is the elements of xs in their order, each trimmed, separated by sep
IsRendering(r, xs, sep) ==
    IF Len(xs) = 0 THEN r = <<>>
    ELSE LET pieces == Split(r, sep) IN
         /\ Len(pieces) = Len(xs)
         /\ \A i \in 1..Len(xs) : IsTrimOf(pieces[i], xs[i])

\* the renderings read so far
Rendered(kind) == Project(log, kind, 2)

MarchMavx2 ==
    << <<" ","-","m","a","r","c","h","=","n","a","t","i","v","e">>,
       <<" ","-","m","a","v","x","2">> >>

(* C13 as stated: the optimization flags [" -march=native", " -mavx2"]     *)
(* render as " -march=native  -mavx2", and no flags render as the empty    *)
(* string.                                                                 *)
C13_LeadingSpacesKept ==
    \A i \in 1..Len(Rendered("opts_flags_str")) :
      LET r == Rendered("opts_flags_str")[i] IN
      /\ IsNone(self.opts_flags) => r = <<>>
      /\ self.opts_flags = Some(MarchMavx2) =>
           r = <<" ","-","m","a","r","c","h","=","n","a","t","i","v","e",
                 " "," ","-","m","a","v","x","2">>

(* C13 amended: the optimization flags render as their elements, each      *)
(* trimmed of leading and trailing whitespace, joined by one space, so     *)
(* [" -march=native", " -mavx2"] renders as "-march=native -mavx2"; no     *)
(* flags render as the empty string.                                       *)
C13_TrimmedSpaceJoined ==
    \A i \in 1..Len(Rendered("opts_flags_str")) :
      LET r == Rendered("opts_flags_str")[i] IN
      /\ IsNone(self.opts_flags) => r = <<>>
      /\ self.opts_flags = Some(MarchMavx2) =>
           r = <<"-","m","a","r","c","h","=","n","a","t","i","v","e",
                 " ","-","m","a","v","x","2">>
      /\ ~IsNone(self.opts_flags) =>
           IsRendering(r, Val(self.opts_flags), " ")

C13_Witness ==
    /\ self.opts_flags = Some(MarchMavx2)
    /\ Rendered("opts_flags_str")
         = << <<"-","m","a","r","c","h","=","n","a","t","i","v","e",
                " ","-","m","a","v","x","2">> >>

(* C14: the compute capabilities render as their elements in the original *)
(* order, each trimmed of leading and trailing whitespace, separated by    *)
(* one comma and nothing else; ["3.5", " 5.2 "] renders as "3.5,5.2".      *)
C14_TrimmedCommaJoined ==
    \A i \in 1..Len(Rendered("cuda_capabilities_str")) :
      LET r == Rendered("cuda_capabilities_str")[i] IN
      /\ IsRendering(r, Val(self.cuda_capabilities), ",")
      /\ \A j \in 1..Len(r) : r[j] \notin Whitespace
      /\ Val(self.cuda_capabilities)
           = << <<"3",".","5">>, <<" ","5",".","2"," ">> >>
         => r = <<"3",".","5",",","5",".","2">>

C14_Witness ==
    /\ Val(self.cuda_capabilities)
         = << <<"3",".","5">>, <<" ","5",".","2"," ">> >>
    /\ Rendered("cuda_capabilities_str") = << <<"3",".","5",",","5",".","2">> >>


\* the yes/no prompts that have a feature flag, with the switch that is to
\* set the flag
PromptSwitch ==
    { <<"with_jemalloc", "--with-jemalloc">>,
      <<"with_google_cloud_platform", "--with-google-cloud-platform">>,
      <<"with_hdfs", "--with-hdfs">>,
      <<"with_amazon_s3", "--with-amazon-s3">>,
      <<"with_kafka", "--with-kafka">>,
      <<"with_xla_jit", "--with-xla-jit">>,
      <<"with_gdr", "--with-gdr">>,
      <<"with_verbs", "--with-verbs">>,
      <<"with_opencl_sycl", "--with-opencl-sycl">>,
      <<"with_cuda", "--with-cuda">>,
      <<"with_fresh_clang", "--with-fresh-clang">>,
      <<"with_mpi", "--with-mpi">>,
      <<"cuda_with_tensorrt", "--cuda-with-tensorrt">>,
      <<"cuda_with_clang", "--cuda-with-clang">> }

(* C15: every yes/no prompt with a feature flag has a switch: a command    *)
(* line carrying it is accepted by the parser and makes the flag of the    *)
(* configuration true.                                                     *)
C15_SwitchForEveryPrompt ==
    pc # "parse" =>
      \A p \in PromptSwitch :
        p[2] \in Val(argv).switches =>
          /\ err.type # "SystemExit"
          /\ args[p[1]] = TRUE

----------------------------------------------------------------------------
\* the sendline events, oldest first
Sent == Events("sendline")

\* the yes/no prompts answered from a flag, and the flag of each
YesNoPrompts ==
    ({ p[1] : p \in PromptSwitch } \ { "with_fresh_clang" })
        \cup { "fresh_clang" }

FlagOf(p) == IF p = "fresh_clang" THEN "with_fresh_clang" ELSE p

(* C16: the line sent to a yes/no prompt is "Y" or "N", "Y" exactly when   *)
(* the flag of the prompt is true and "N" exactly when it is false; the    *)
(* line sent to the mobile/embedded prompt is always "N".                  *)
C16_YesNoAnswers ==
    LET sent == Sent
    IN \A i \in 1..Len(sent) :
         /\ sent[i][2] \in YesNoPrompts =>
              /\ sent[i][3] \in { <<"Y">>, <<"N">> }
              /\ sent[i][3] = <<"Y">> <=> args[FlagOf(sent[i][2])] = TRUE
              /\ sent[i][3] = <<"N">> <=> args[FlagOf(sent[i][2])] = FALSE
         /\ sent[i][2] = "android" => sent[i][3] = <<"N">>

\* a finished run that answered one yes/no prompt "Y" and another "N"
C16_Witness ==
    /\ pc = "done"
    /\ \E i, j \in 1..Len(Sent) :
         /\ Sent[i][2] \in YesNoPrompts /\ Sent[i][3] = <<"Y">>
         /\ Sent[j][2] \in YesNoPrompts /\ Sent[j][3] = <<"N">>
    /\ \E i \in 1..Len(Sent) : Sent[i][2] = "android"

(* C17: the clang-as-CUDA-compiler prompt and the OpenCL SYCL prompt are   *)
(* answered "N" whenever they are answered; in the GPU branch the prompt   *)
(* awaited after the clang prompt is the host-compiler prompt; run() never *)
(* raises NotImplementedError on a constructed object; an object answering *)
(* the clang prompt "Y" makes run() raise right after that answer.         *)
C17_ClangNeverYes ==
    LET sent == Sent
        awaited == Awaited
        matched == Matched
    IN /\ \A i \in 1..Len(sent) :
            sent[i][2] \in {"cuda_with_clang", "with_opencl_sycl"} =>
               sent[i][3] = <<"N">>
       /\ \A k \in 1..Len(awaited) :
            (awaited[k] = "cuda_with_clang" /\ k < Len(awaited)) =>
               awaited[k + 1] = "cuda_gcc_path"
       /\ (matched # <<>> /\ matched[Len(matched)] = "cuda_with_clang") =>
            \/ pc = "cuda_gcc_path"
            \/ pc = "failed" /\ err.type \in {"TIMEOUT", "EOF"}
                             /\ awaited[Len(awaited)] = "cuda_gcc_path"
       /\ Constructed => err.type # "NotImplementedError"
       /\ Constructed =>
            /\ after_clang(self) = NoError
            /\ after_clang([self EXCEPT !.cuda_with_clang = bool_y_n(TRUE)])
                 = NotImplemented("cuda_with_clang=True")

\* a GPU run whose clang prompt was answered and whose host-compiler
\* prompt was then awaited
C17_Witness ==
    /\ \E i \in 1..Len(Sent) : Sent[i][2] = "cuda_with_clang"
    /\ \E i \in 1..Len(Sent) : Sent[i][2] = "with_opencl_sycl"
    /\ \E k \in 1..Len(Awaited) : Awaited[k] = "cuda_gcc_path"

----------------------------------------------------------------------------
\* the states that wait without answering
WaitOnly == { "finished", "EOF" }

(* C18: a prompt step echoes the output after the previous match if there  *)
(* was one, waits for its pattern, and only after the match sends its      *)
(* answer, one line, if the state has an answer, then echoes the output    *)
(* before the match: an answer directly follows the match of its prompt,   *)
(* a wait starts only after the previous step has sent its answer and      *)
(* echoed, and the completion-marker and end-of-stream states send         *)
(* nothing.                                                                *)
C18_StepOrder ==
    LET n == Len(log)
    IN \A i \in 1..n :
         LET e == log[i]
             kind == e[1]
             prev == IF i > 1 THEN log[i - 1][1] ELSE "none"
         IN
         /\ kind = "print_after" =>
              /\ prev = "print_before"
              /\ i < n /\ log[i + 1][1] = "expect"
         /\ kind = "expect" =>
              \/ prev = "spawn"
              \/ prev = "print_after"
         /\ kind = "match" =>
              /\ prev = "expect" /\ log[i - 1][2] = e[2]
              /\ i < n
              /\ IF e[2] \in WaitOnly
                 THEN log[i + 1] = <<"print_before", e[2]>>
                 ELSE /\ log[i + 1][1] = "sendline"
                      /\ log[i + 1][2] = e[2]
         /\ kind = "sendline" =>
              /\ prev = "match" /\ log[i - 1][2] = e[2]
              /\ e[2] \notin WaitOnly
              /\ i < n /\ log[i + 1] = <<"print_before", e[2]>>
         /\ kind = "print_before" =>
              /\ prev \in {"match", "sendline"}
              /\ log[i - 1][2] = e[2]

\* a whole run: every prompt answered, the two waiting states matched
C18_Witness ==
    /\ pc = "done"
    /\ Len(Matched) = Len(Answered) + 2
    /\ Len(Events("print_after")) = Len(Awaited) - 1

(* C19: once the object is constructed no step changes its configuration   *)
(* fields or the arguments it was built from; the steps of run() change    *)
(* only the session.                                                        *)
C19_ConfigFrozen ==
    [][Constructed => (EXPECT' = EXPECT /\ args' = args)]_vars

\* a run that failed after answering some prompts, the object still as
\* constructed
C19_Witness ==
    /\ pc = "failed"
    /\ Constructed
    /\ Len(Answered) >= 3
    /\ script # NoScript
    /\ self = init_fields(args)

\* the interpreter paths of the invocation
BinMissing == ~python_bin_path_ok(init_fields(args))
LibMissing == ~python_dist_path_ok(init_fields(args))

(* C20: the interpreter paths are checked in run(), not at construction:   *)
(* with the binary missing the object is constructed and the child         *)
(* spawned, then run() fails with no prompt awaited and no answer sent;    *)
(* with only the library directory missing run() fails after the first     *)
(* answer was sent and before the second prompt is awaited; in both cases  *)
(* the child is left running.                                              *)
C20_LazyInterpreterChecks ==
    LET awaited == Awaited
        answered == Answered
        missing == err.type = "AssertionError" /\ Constructed
    IN
    /\ (init_checks(args) = NoError /\ pc # "init") => Constructed
    /\ (Constructed /\ BinMissing) =>
         /\ pc \in {"spawn", "python_bin", "failed"}
         /\ awaited = <<>> /\ answered = <<>>
         /\ pc = "failed" =>
              /\ err = DoesNotExist(python_bin_path(self))
              /\ log = << <<"spawn">>, <<"raise", "AssertionError">> >>
    /\ (Constructed /\ ~BinMissing /\ LibMissing) =>
         /\ pc \in {"spawn", "python_bin", "python_lib", "failed"}
         /\ IsPrefix(awaited, <<"python_bin">>)
         /\ (pc = "failed" /\ err.type = "AssertionError") =>
              /\ err = DoesNotExist(python_dist_path(self))
              /\ awaited = <<"python_bin">>
              /\ answered = <<"python_bin">>
              /\ SentLines = << python_bin_path(self) >>
    /\ missing =>
         /\ script # NoScript
         /\ child.state = "running"
         /\ BinMissing \/ LibMissing

\* the library directory missing: failed with the first prompt answered
C20_Witness ==
    /\ pc = "failed"
    /\ err.type = "AssertionError"
    /\ Constructed
    /\ Answered = <<"python_bin">>
    /\ child.state = "running"

====
